---- MODULE Spec2Model ----
(***************************************************************************)
(* The UKF odometry node of src/src/UKF_Odom.py as a state machine.        *)
(*                                                                         *)
(* Numbers.  The program computes in float64.  Here a real number v is the *)
(* integer v * ONE (fixed point, ONE = 7000 * 7000 = 49 000 000 units), so *)
(* that every literal of the source (0.1, 1e-6, 1/14, 1/7, 0.0762, ...) is *)
(* an exact integer, as 32-bit integers allow.  Products, quotients, square*)
(* roots and the trigonometric functions are computed to that resolution   *)
(* (truncating toward zero), where float64 rounds at 2^-53.                *)
(***************************************************************************)
EXTENDS Integers, Sequences, FiniteSets, TLC

\* ------------------------------------------------------------ fixed point
B == 7 * 1000
ONE == B * B

Abs(a) == IF a < 0 THEN 0 - a ELSE a

\* integer quotient truncated toward zero
IDiv(a, d) == IF a < 0 THEN 0 - ((0 - a) \div d) ELSE a \div d

\* floor(a * b / ONE) for a, b >= 0, without leaving 32 bits
MulAbs(a, b) ==
  LET a1 == a \div B
      a0 == a % B
      b1 == b \div B
      b0 == b % B
  IN  a1 * b1 + ((a1 * b0 + a0 * b1 + ((a0 * b0) \div B)) \div B)

\* the float product a * b
Mul(a, b) ==
  IF a = 0 \/ b = 0 THEN 0
  ELSE IF (a < 0) = (b < 0) THEN MulAbs(Abs(a), Abs(b))
  ELSE 0 - MulAbs(Abs(a), Abs(b))

\* the digits of ONE, for long division
DivDigits == <<10, 10, 10, 7, 10, 10, 10, 7>>

RECURSIVE DivLong(_, _, _, _)
DivLong(q, r, b, d) ==
  IF d > Len(DivDigits) THEN q
  ELSE DivLong(q * DivDigits[d] + ((r * DivDigits[d]) \div b),
               (r * DivDigits[d]) % b, b, d + 1)

\* floor(a * ONE / b) for a >= 0, b > 0; a divisor too large for the long
\* division is first reduced together with the dividend
RECURSIVE DivAbs(_, _)
DivAbs(a, b) ==
  IF b > 200000000 THEN DivAbs(a \div 8, b \div 8)
  ELSE DivLong(a \div b, a % b, b, 1)

\* the float quotient a / b, b # 0
Div(a, b) ==
  IF (a < 0) = (b < 0) THEN DivAbs(Abs(a), Abs(b))
  ELSE 0 - DivAbs(Abs(a), Abs(b))

\* ceil(r * r / ONE) for r >= 0
SqCeil(r) ==
  LET r1 == r \div B
      r0 == r % B
      t  == 2 * r1 * r0 + ((r0 * r0) \div B)
  IN  r1 * r1 + (t \div B)
        + (IF t % B = 0 /\ (r0 * r0) % B = 0 THEN 0 ELSE 1)

RECURSIVE SqrtSearch(_, _, _)
SqrtSearch(v, lo, hi) ==
  IF hi - lo <= 1 THEN lo
  ELSE LET mid == (lo + hi) \div 2
       IN  IF SqCeil(mid) <= v THEN SqrtSearch(v, mid, hi)
           ELSE SqrtSearch(v, lo, mid)

\* the float square root of v >= 0: the largest r with r * r <= v
Sqrt(v) == SqrtSearch(v, 0, IF v < ONE THEN ONE + 1 ELSE (13 * ONE) \div 2)

\* pi, and the Taylor polynomials of cos and sin on [-pi/2, pi/2]
PI == 153938040
TrigTerms == 8

RECURSIVE CosSeries(_, _, _, _)
CosSeries(x2, term, j, acc) ==
  IF j > TrigTerms THEN acc
  ELSE LET t == 0 - IDiv(Mul(term, x2), (2 * j - 1) * (2 * j))
       IN  CosSeries(x2, t, j + 1, acc + t)

RECURSIVE SinSeries(_, _, _, _)
SinSeries(x2, term, j, acc) ==
  IF j > TrigTerms THEN acc
  ELSE LET t == 0 - IDiv(Mul(term, x2), (2 * j) * (2 * j + 1))
       IN  SinSeries(x2, t, j + 1, acc + t)

RECURSIVE Wrap(_)
Wrap(th) ==
  IF th > PI THEN Wrap(th - 2 * PI)
  ELSE IF th < 0 - PI THEN Wrap(th + 2 * PI)
  ELSE th

\* np.cos
Cos(th) ==
  LET w == Wrap(th)
      r == IF w > PI \div 2 THEN PI - w
           ELSE IF w < 0 - (PI \div 2) THEN 0 - PI - w
           ELSE w
      c == CosSeries(Mul(r, r), ONE, 1, ONE)
  IN  IF r = w THEN c ELSE 0 - c

\* np.sin
Sin(th) ==
  LET w == Wrap(th)
      r == IF w > PI \div 2 THEN PI - w
           ELSE IF w < 0 - (PI \div 2) THEN 0 - PI - w
           ELSE w
  IN  SinSeries(Mul(r, r), r, 1, r)

\* ------------------------------------------------- vectors and matrices
\* A vector is a tuple, a matrix a tuple of rows; indices start at 1 where
\* the source's start at 0.

\* the ndarray holding the values f[1], ..., f[m], each computed once
Tup(f) == f \o <<>>

RECURSIVE SumTo(_, _)
SumTo(t, m) == IF m = 0 THEN 0 ELSE SumTo(t, m - 1) + t[m]

\* the sum of the entries, in order
SeqSum(f) == LET t == Tup(f) IN SumTo(t, Len(t))

\* np.zeros, np.eye
Zeros(m) == Tup([i \in 1..m |-> 0])
ZerosMat(rows, cols) ==
  Tup([i \in 1..rows |-> Tup([j \in 1..cols |-> 0])])
Eye(m) ==
  Tup([i \in 1..m |-> Tup([j \in 1..m |-> IF i = j THEN ONE ELSE 0])])

\* the operator @ on two matrices, and on a matrix and a vector
MatMul(X, Y) ==
  Tup([i \in 1..Len(X) |->
    Tup([j \in 1..Len(Y[1]) |->
      SeqSum([l \in 1..Len(Y) |-> Mul(X[i][l], Y[l][j])])])])
MatVec(X, v) ==
  Tup([i \in 1..Len(X) |-> SeqSum([l \in 1..Len(v) |-> Mul(X[i][l], v[l])])])
Transpose(X) ==
  Tup([i \in 1..Len(X[1]) |-> Tup([j \in 1..Len(X) |-> X[j][i]])])
MatAdd(X, Y) ==
  Tup([i \in 1..Len(X) |->
    Tup([j \in 1..Len(X[1]) |-> X[i][j] + Y[i][j]])])
MatSub(X, Y) ==
  Tup([i \in 1..Len(X) |->
    Tup([j \in 1..Len(X[1]) |-> X[i][j] - Y[i][j]])])
MatScale(c, X) ==
  Tup([i \in 1..Len(X) |->
    Tup([j \in 1..Len(X[1]) |-> Mul(c, X[i][j])])])
VecAdd(u, v) == Tup([i \in 1..Len(u) |-> u[i] + v[i]])
VecSub(u, v) == Tup([i \in 1..Len(u) |-> u[i] - v[i]])
VecScale(c, v) == Tup([i \in 1..Len(v) |-> Mul(c, v[i])])
Column(X, j) == Tup([i \in 1..Len(X) |-> X[i][j]])
\* ndarray.flatten (row-major)
Flatten(X) ==
  Tup([q \in 1..Len(X) * Len(X[1]) |->
    X[((q - 1) \div Len(X[1])) + 1][((q - 1) % Len(X[1])) + 1]])

\* The result of a LAPACK routine that raises numpy.linalg.LinAlgError
LinAlgError == <<>>

\* np.linalg.cholesky: the lower factor L (L @ L.T = A), column by column;
\* only the lower triangle of A is read.  A pivot that is not positive
\* raises LinAlgError.
RECURSIVE CholeskyFrom(_, _, _)
CholeskyFrom(A, L, j) ==
  IF j > Len(A) THEN L
  ELSE LET d == A[j][j] - SeqSum([l \in 1..j - 1 |-> Mul(L[j][l], L[j][l])])
       IN  IF d <= 0 THEN LinAlgError
           ELSE LET ljj == Sqrt(d)
                    col(i) ==
                      IF i < j THEN 0
                      ELSE IF i = j THEN ljj
                      ELSE Div(A[i][j]
                                 - SeqSum([l \in 1..j - 1 |->
                                             Mul(L[i][l], L[j][l])]),
                               ljj)
                IN  CholeskyFrom(A,
                      Tup([i \in 1..Len(A) |->
                        Tup([c \in 1..Len(A) |->
                          IF c = j THEN col(i) ELSE L[i][c]])]),
                      j + 1)

cholesky(A) == CholeskyFrom(A, ZerosMat(Len(A), Len(A)), 1)

\* The row of the pivot of column c: the first row, from c on, of largest
\* absolute value (partial pivoting).
RECURSIVE PivotRow(_, _, _, _)
PivotRow(M, c, r, best) ==
  IF r > Len(M) THEN best
  ELSE PivotRow(M, c, r + 1,
                IF Abs(M[r][c]) > Abs(M[best][c]) THEN r ELSE best)

\* np.linalg.inv: elimination with partial pivoting on [M | R]; an exactly
\* zero pivot raises LinAlgError ("Singular matrix").
RECURSIVE InvFrom(_, _, _)
InvFrom(M, R, c) ==
  IF c > Len(M) THEN R
  ELSE LET p == PivotRow(M, c, c, c)
       IN  IF M[p][c] = 0 THEN LinAlgError
           ELSE LET swap(X) ==
                      Tup([i \in 1..Len(X) |->
                        IF i = c THEN X[p] ELSE IF i = p THEN X[c] ELSE X[i]])
                    M1 == swap(M)
                    R1 == swap(R)
                    piv == M1[c][c]
                    mrow == Tup([j \in 1..Len(M) |-> Div(M1[c][j], piv)])
                    rrow == Tup([j \in 1..Len(M) |-> Div(R1[c][j], piv)])
                    M2 == Tup([i \in 1..Len(M) |->
                            Tup([j \in 1..Len(M) |->
                              IF i = c THEN mrow[j]
                              ELSE M1[i][j] - Mul(M1[i][c], mrow[j])])])
                    R2 == Tup([i \in 1..Len(M) |->
                            Tup([j \in 1..Len(M) |->
                              IF i = c THEN rrow[j]
                              ELSE R1[i][j] - Mul(M1[i][c], rrow[j])])])
                IN  InvFrom(M2, R2, c + 1)

inv(M) == InvFrom(M, Eye(Len(M)), 1)

\* ------------------------------------------------------------ the filter
\* callback's UKF parameters
n == 6
k == 3
lambda_value == 7 - n
NSigma == 2 * n + 1

\* innovation's robot description and regulariser
wheel_radius == 762 * (ONE \div 10000)
wheel_pair_separation == 488 * (ONE \div 1000)
wheel_separation == 44715 * (ONE \div 100000)
wheel_width == 5 * (ONE \div 100)
roller_wheel_effect ==
  LET b == Mul(ONE \div 2, wheel_separation + wheel_width)
      a == Mul(ONE \div 2, wheel_radius + wheel_pair_separation)
  IN  Div(a + b, wheel_radius)
epsilon == ONE \div 1000000

\* innovation's measurement model C (5 x 6)
C ==
  LET w == Div(ONE, wheel_radius)
      r == roller_wheel_effect
  IN  << <<0, 0, 0, 0,     0,     ONE  >>,
         <<0, 0, 0, w, 0 - w, 0 - r >>,
         <<0, 0, 0, w,     w,     r    >>,
         <<0, 0, 0, w,     w, 0 - r >>,
         <<0, 0, 0, w, 0 - w,     r    >> >>

\* predict's nonlinear motion model: predicted_state
predicted_state(state, cmd_vel, dt) ==
  LET vx == cmd_vel.linear_x
      vy == cmd_vel.linear_y
      omega == cmd_vel.angular_z
      c == Cos(state[3])
      s == Sin(state[3])
  IN  << state[1] + Mul(Mul(vx, c) - Mul(vy, s), dt),
         state[2] + Mul(Mul(vy, c) + Mul(vx, s), dt),
         state[3] + Mul(omega, dt),
         vx, vy, omega >>

\* predict's linearised covariance: Gx @ self.state_cov @ Gx.T
EKF_pred_cov(state, cmd_vel, dt, cov) ==
  LET vx == cmd_vel.linear_x
      vy == cmd_vel.linear_y
      c == Cos(state[3])
      s == Sin(state[3])
      Gx == << <<ONE, 0, 0 - Mul(Mul(vx, s) + Mul(vy, c), dt),
                 Mul(dt, c), 0 - Mul(dt, s), 0>>,
               <<0, ONE, Mul(Mul(vx, c) - Mul(vy, s), dt),
                 Mul(dt, s), Mul(dt, c), 0>>,
               <<0, 0, ONE, 0, 0, dt>>,
               <<0, 0, 0, ONE, 0, 0>>,
               <<0, 0, 0, 0, ONE, 0>>,
               <<0, 0, 0, 0, 0, ONE>> >>
  IN  MatMul(MatMul(Gx, cov), Transpose(Gx))

\* innovation's innovation_cov = C @ pred_cov @ C.T + z_cov + epsilon * I
innovation_cov(pred_cov, z_cov) ==
  MatAdd(MatAdd(MatMul(MatMul(C, pred_cov), Transpose(C)), z_cov),
         MatScale(epsilon, Eye(5)))

\* innovation with the regulariser left out of the posterior covariance
innovation_no_regulariser(pred_state, pred_cov, z, z_cov) ==
  LET S_inv == inv(innovation_cov(pred_cov, z_cov))
  IN  IF S_inv = LinAlgError THEN LinAlgError
      ELSE LET K == MatMul(MatMul(pred_cov, Transpose(C)), S_inv)
           IN  << VecAdd(pred_state,
                         MatVec(K, VecSub(z, MatVec(C, pred_state)))),
                  MatMul(MatSub(Eye(6), MatMul(K, C)), pred_cov) >>

\* innovation: the linear Kalman correction; LinAlgError when
\* np.linalg.inv(innovation_cov) raises
innovation(pred_state, pred_cov, z, z_cov) ==
  LET S_inv == inv(innovation_cov(pred_cov, z_cov))
  IN  IF S_inv = LinAlgError THEN LinAlgError
      ELSE LET K == MatMul(MatMul(pred_cov, Transpose(C)), S_inv)
               state == VecAdd(pred_state,
                               MatVec(K, VecSub(z, MatVec(C, pred_state))))
               state_cov ==
                 MatAdd(MatMul(MatSub(Eye(6), MatMul(K, C)), pred_cov),
                        MatScale(epsilon, Eye(6)))
           IN  <<state, state_cov>>

\* sigma_points with the second loop adding, as the first does
sigma_points_same_sign(state, cov_sqrt) ==
  LET spread == Sqrt(((n - k) + lambda_value) * ONE)
  IN  Tup([i \in 1..NSigma |-> IF i = 1 THEN state
            ELSE IF i <= n + 1
              THEN VecAdd(state, VecScale(spread, Column(cov_sqrt, i - 1)))
            ELSE VecAdd(state, VecScale(spread, Column(cov_sqrt, i - 1 - n)))])

\* callback's sigma points: row 1 the state, rows 2..n+1 the state plus,
\* rows n+2..2n+1 the state minus, the scaled columns of cov_sqrt
sigma_points(state, cov_sqrt) ==
  LET spread == Sqrt(((n - k) + lambda_value) * ONE)
  IN  Tup([i \in 1..NSigma |-> IF i = 1 THEN state
            ELSE IF i <= n + 1
              THEN VecAdd(state, VecScale(spread, Column(cov_sqrt, i - 1)))
            ELSE VecSub(state, VecScale(spread, Column(cov_sqrt, i - 1 - n)))])

\* callback's mean_weights (cov_weights is a copy with the same entry 0)
mean_weights ==
  Tup([i \in 1..NSigma |->
    IF i = 1 THEN (lambda_value * ONE) \div (lambda_value + n)
    ELSE ONE \div (2 * (n + lambda_value))])
cov_weights == mean_weights

\* callback's recombination loop: every sigma point is propagated; the
\* deviations are taken from mean_pred, the propagated current state
propagated(sigma, cmd_vel, dt) ==
  Tup([i \in 1..NSigma |-> predicted_state(sigma[i], cmd_vel, dt)])

weighted_pred(preds) ==
  Tup([i \in 1..NSigma |-> VecScale(mean_weights[i], preds[i])])

\* the sum of cov_weights[i] * np.outer(distance, distance) over the sigma
\* points, distance = centre - pred
weighted_cov(centre, preds) ==
  Tup([r \in 1..n |->
    Tup([c \in 1..n |->
      SeqSum([i \in 1..NSigma |->
        Mul(cov_weights[i],
            Mul(centre[r] - preds[i][r], centre[c] - preds[i][c]))])])])

\* np.sum(weighted_pred, axis=0)
column_sums(rows) ==
  Tup([j \in 1..n |-> SeqSum([i \in 1..Len(rows) |-> rows[i][j]])])

\* odometry_message with pose_cov[-1, 1] never assigned
odometry_message_no_cross(current_t, state, state_cov) ==
  LET P == state_cov
      pose_cov ==
        << <<P[1][1], P[1][2], 0, 0, 0, P[1][3]>>,
           <<P[1][2], P[2][2], 0, 0, 0, P[2][3]>>,
           <<0, 0, 0, 0, 0, 0>>,
           <<0, 0, 0, 0, 0, 0>>,
           <<0, 0, 0, 0, 0, 0>>,
           <<P[1][3], 0, 0, 0, 0, P[3][3]>> >>
      twist_cov ==
        << <<P[4][4], 0, 0, 0, 0, P[6][4]>>,
           <<0, P[5][5], 0, 0, 0, P[5][6]>>,
           <<0, 0, 0, 0, 0, 0>>,
           <<0, 0, 0, 0, 0, 0>>,
           <<0, 0, 0, 0, 0, 0>>,
           <<P[6][4], P[6][5], 0, 0, 0, P[6][6]>> >>
  IN  [ stamp |-> current_t,
        frame_id |-> "odom",
        child_frame_id |-> "base_footprint",
        position |-> <<state[1], state[2], 0>>,
        orientation_matrix |->
          << <<Cos(state[3]), 0 - Sin(state[3]), 0, 0>>,
             <<Sin(state[3]), Cos(state[3]), 0, 0>>,
             <<0, 0, ONE, 0>>,
             <<0, 0, 0, ONE>> >>,
        pose_covariance |-> Flatten(pose_cov),
        twist |-> <<state[4], state[5], state[6]>>,
        twist_covariance |-> Flatten(twist_cov) ]

\* publish_odometry's message
odometry_message(current_t, state, state_cov) ==
  LET P == state_cov
      pose_cov ==
        << <<P[1][1], P[1][2], 0, 0, 0, P[1][3]>>,
           <<P[1][2], P[2][2], 0, 0, 0, P[2][3]>>,
           <<0, 0, 0, 0, 0, 0>>,
           <<0, 0, 0, 0, 0, 0>>,
           <<0, 0, 0, 0, 0, 0>>,
           <<P[1][3], P[2][3], 0, 0, 0, P[3][3]>> >>
      twist_cov ==
        << <<P[4][4], 0, 0, 0, 0, P[6][4]>>,
           <<0, P[5][5], 0, 0, 0, P[5][6]>>,
           <<0, 0, 0, 0, 0, 0>>,
           <<0, 0, 0, 0, 0, 0>>,
           <<0, 0, 0, 0, 0, 0>>,
           <<P[6][4], P[6][5], 0, 0, 0, P[6][6]>> >>
  IN  [ stamp |-> current_t,
        frame_id |-> "odom",
        child_frame_id |-> "base_footprint",
        position |-> <<state[1], state[2], 0>>,
        orientation_matrix |->
          << <<Cos(state[3]), 0 - Sin(state[3]), 0, 0>>,
             <<Sin(state[3]), Cos(state[3]), 0, 0>>,
             <<0, 0, ONE, 0>>,
             <<0, 0, 0, ONE>> >>,
        pose_covariance |-> Flatten(pose_cov),
        twist |-> <<state[4], state[5], state[6]>>,
        twist_covariance |-> Flatten(twist_cov) ]

\* ------------------------------------------------------------ the inputs
MaxCalls == 3

\* header.stamp in ticks of 0.1 s; Time.to_sec gives seconds
MaxStamp == 2
Stamps == 1..MaxStamp
to_sec(t) == t * (ONE \div 10)

ImuSamples ==
  { [angular_velocity_z |-> 0, angular_velocity_covariance_8 |-> ONE \div 20],
    [angular_velocity_z |-> ONE \div 10,
     angular_velocity_covariance_8 |-> 0 - epsilon] }

WheelSamples ==
  LET w == Div(ONE, wheel_radius)
  IN  { <<w, w, w, w>>, <<w, w, w>>, <<w>> }

CmdVels ==
  { [linear_x |-> ONE, linear_y |-> 0, angular_z |-> 0],
    [linear_x |-> 0, linear_y |-> ONE \div 2, angular_z |-> ONE] }

\* ------------------------------------------------------------- the state
VARIABLES
  prev_time,   \* self.prev_time: <<>> is None, <<t>> the float t
  state,       \* self.state
  state_cov,   \* self.state_cov
  odom_pub,    \* the messages published on /ukf_odom, oldest first
  pc,          \* where the callback invocation stands ("idle": none runs)
  frame,       \* the arguments and locals of the running invocation
  raised,      \* the exception the last invocation ended with, or "none"
  calls,       \* invocations of callback so far
  errors       \* invocations that ended with an exception

vars == <<prev_time, state, state_cov, odom_pub, pc, frame, raised, calls,
          errors>>

unbound == <<>>
NoFrame ==
  [ imu_data |-> unbound, wheel_encoder_data |-> unbound, cmd_vel |-> unbound,
    current_t |-> unbound, dt |-> unbound, measurement |-> unbound,
    z_cov |-> unbound, EKF_pred |-> unbound, EKF_pred_cov |-> unbound,
    sigma |-> unbound, mean_pred |-> unbound, preds |-> unbound,
    pred_cov |-> unbound, pred_state |-> unbound,
    UKF_posterior |-> unbound, UKF_cov_posterior |-> unbound ]

\* __init__
Init ==
  /\ state = Zeros(6)
  /\ state_cov = MatScale(ONE \div 10, Eye(6))
  /\ prev_time = <<>>
  /\ odom_pub = <<>>
  /\ pc = "idle"
  /\ frame = NoFrame
  /\ raised = "none"
  /\ calls = 0
  /\ errors = 0

\* An exception leaves callback: the invocation ends, its frame is gone,
\* and rospy goes on to the next triple.
Raise(exc) ==
  /\ pc' = "idle"
  /\ frame' = NoFrame
  /\ raised' = exc
  /\ errors' = errors + 1

\* The synchronizer calls callback(imu_data, wheel_encoder_data, cmd_vel).
Deliver ==
  /\ pc = "idle"
  /\ calls < MaxCalls
  /\ \E t \in Stamps, imu \in ImuSamples, wheel \in WheelSamples,
        cmd \in CmdVels :
       frame' = [NoFrame EXCEPT
                   !.imu_data = [stamp |-> t,
                                 angular_velocity_z |-> imu.angular_velocity_z,
                                 angular_velocity_covariance_8 |->
                                   imu.angular_velocity_covariance_8],
                   !.wheel_encoder_data = [velocity |-> wheel],
                   !.cmd_vel = cmd]
  /\ pc' = "entry"
  /\ calls' = calls + 1
  /\ raised' = "none"
  /\ UNCHANGED <<prev_time, state, state_cov, odom_pub, errors>>

\* callback_time without the first-sample return: the first call goes on
\* with dt = 0
callback_time_no_first_sample ==
  /\ pc = "entry"
  /\ LET current_t == frame.imu_data.stamp
         current_t_sec == to_sec(current_t)
     IN  /\ prev_time' = <<current_t_sec>>
         /\ frame' = [frame EXCEPT
                        !.current_t = current_t,
                        !.dt = IF prev_time = <<>> THEN 0
                               ELSE current_t_sec - prev_time[1]]
         /\ pc' = "measure"
  /\ UNCHANGED <<state, state_cov, odom_pub, raised, calls, errors>>

\* callback_time that leaves self.prev_time at the first sample's time
callback_time_stale_reference ==
  /\ pc = "entry"
  /\ LET current_t == frame.imu_data.stamp
         current_t_sec == to_sec(current_t)
     IN  IF prev_time = <<>>
         THEN /\ prev_time' = <<current_t_sec>>
              /\ pc' = "idle"
              /\ frame' = NoFrame
         ELSE /\ prev_time' = prev_time
              /\ frame' = [frame EXCEPT !.current_t = current_t,
                                        !.dt = current_t_sec - prev_time[1]]
              /\ pc' = "measure"
  /\ UNCHANGED <<state, state_cov, odom_pub, raised, calls, errors>>

\* callback, lines 39-46: the first sample only sets the time reference
callback_time ==
  /\ pc = "entry"
  /\ LET current_t == frame.imu_data.stamp
         current_t_sec == to_sec(current_t)
     IN  IF prev_time = <<>>
         THEN /\ prev_time' = <<current_t_sec>>
              /\ pc' = "idle"
              /\ frame' = NoFrame
         ELSE /\ prev_time' = <<current_t_sec>>
              /\ frame' = [frame EXCEPT !.current_t = current_t,
                                        !.dt = current_t_sec - prev_time[1]]
              /\ pc' = "measure"
  /\ UNCHANGED <<state, state_cov, odom_pub, raised, calls, errors>>

\* measurement[1:] = velocity: numpy broadcasts one value over the four
\* slots and raises ValueError for any other length than 4
wheel_slots(velocity) ==
  IF Len(velocity) = 4 THEN velocity
  ELSE IF Len(velocity) = 1
    THEN <<velocity[1], velocity[1], velocity[1], velocity[1]>>
  ELSE "ValueError"

\* callback, lines 48-55: the measurement, its covariance, the EKF prediction
callback_measurement ==
  /\ pc = "measure"
  /\ IF wheel_slots(frame.wheel_encoder_data.velocity) = "ValueError"
     THEN /\ Raise("ValueError")
          /\ UNCHANGED calls
     ELSE /\ frame' =
               [frame EXCEPT
                  !.measurement =
                    <<frame.imu_data.angular_velocity_z>>
                      \o wheel_slots(frame.wheel_encoder_data.velocity),
                  !.z_cov =
                    Tup([i \in 1..5 |->
                      Tup([j \in 1..5 |->
                        IF i # j THEN 0
                        ELSE IF i = 1
                          THEN frame.imu_data.angular_velocity_covariance_8
                        ELSE 3 * ONE])]),
                  !.EKF_pred = predicted_state(state, frame.cmd_vel, frame.dt),
                  !.EKF_pred_cov =
                    EKF_pred_cov(state, frame.cmd_vel, frame.dt, state_cov)]
          /\ pc' = "sigma"
          /\ UNCHANGED <<raised, calls, errors>>
  /\ UNCHANGED <<prev_time, state, state_cov, odom_pub>>

\* callback, lines 58-84: the sigma points
callback_sigma ==
  /\ pc = "sigma"
  /\ LET cov_sqrt == cholesky(state_cov)
     IN  IF cov_sqrt = LinAlgError
         THEN /\ Raise("LinAlgError")
              /\ UNCHANGED calls
         ELSE /\ frame' = [frame EXCEPT
                             !.sigma = sigma_points(state, cov_sqrt)]
              /\ pc' = "recombine"
              /\ UNCHANGED <<raised, calls, errors>>
  /\ UNCHANGED <<prev_time, state, state_cov, odom_pub>>

\* callback_recombine with predict writing its result through its argument,
\* which is self.state
callback_recombine_aliased ==
  /\ pc = "recombine"
  /\ LET mean_pred == predicted_state(state, frame.cmd_vel, frame.dt)
         preds == propagated(frame.sigma, frame.cmd_vel, frame.dt)
     IN  /\ frame' = [frame EXCEPT
                        !.mean_pred = mean_pred,
                        !.preds = preds,
                        !.pred_cov = weighted_cov(mean_pred, preds),
                        !.pred_state = column_sums(weighted_pred(preds))]
         /\ state' = mean_pred
  /\ pc' = "innovation"
  /\ UNCHANGED <<prev_time, state_cov, odom_pub, raised, calls, errors>>

\* callback, lines 85-102: propagation and recombination
callback_recombine ==
  /\ pc = "recombine"
  /\ LET mean_pred == predicted_state(state, frame.cmd_vel, frame.dt)
         preds == propagated(frame.sigma, frame.cmd_vel, frame.dt)
     IN  frame' = [frame EXCEPT
                     !.mean_pred = mean_pred,
                     !.preds = preds,
                     !.pred_cov = weighted_cov(mean_pred, preds),
                     !.pred_state = column_sums(weighted_pred(preds))]
  /\ pc' = "innovation"
  /\ UNCHANGED <<prev_time, state, state_cov, odom_pub, raised, calls, errors>>

\* callback_innovation with the LinAlgError caught and the prediction kept
callback_innovation_swallow ==
  /\ pc = "innovation"
  /\ LET post == innovation(frame.pred_state, frame.pred_cov,
                            frame.measurement, frame.z_cov)
     IN  frame' = [frame EXCEPT
                     !.UKF_posterior =
                       IF post = LinAlgError THEN frame.pred_state
                       ELSE post[1],
                     !.UKF_cov_posterior =
                       IF post = LinAlgError THEN frame.pred_cov
                       ELSE post[2]]
  /\ pc' = "commit"
  /\ UNCHANGED <<prev_time, state, state_cov, odom_pub, raised, calls, errors>>

\* callback, line 103: the update
callback_innovation ==
  /\ pc = "innovation"
  /\ LET post == innovation(frame.pred_state, frame.pred_cov,
                            frame.measurement, frame.z_cov)
     IN  IF post = LinAlgError
         THEN /\ Raise("LinAlgError")
              /\ UNCHANGED calls
         ELSE /\ frame' = [frame EXCEPT !.UKF_posterior = post[1],
                                        !.UKF_cov_posterior = post[2]]
              /\ pc' = "commit"
              /\ UNCHANGED <<raised, calls, errors>>
  /\ UNCHANGED <<prev_time, state, state_cov, odom_pub>>

\* callback, lines 111-112: the state commit
callback_commit ==
  /\ pc = "commit"
  /\ state' = frame.UKF_posterior
  /\ state_cov' = frame.UKF_cov_posterior
  /\ pc' = "publish"
  /\ UNCHANGED <<prev_time, odom_pub, frame, raised, calls, errors>>

\* callback_publish with the message read from the EKF prediction
callback_publish_ekf ==
  /\ pc = "publish"
  /\ odom_pub' = Append(odom_pub,
                        odometry_message(frame.current_t, frame.EKF_pred,
                                         state_cov))
  /\ pc' = "idle"
  /\ frame' = NoFrame
  /\ UNCHANGED <<prev_time, state, state_cov, raised, calls, errors>>

\* callback, line 115: publish_odometry(current_t), then callback returns
callback_publish ==
  /\ pc = "publish"
  /\ odom_pub' = Append(odom_pub,
                        odometry_message(frame.current_t, state, state_cov))
  /\ pc' = "idle"
  /\ frame' = NoFrame
  /\ UNCHANGED <<prev_time, state, state_cov, raised, calls, errors>>

Next ==
  \/ Deliver
  \/ callback_time
  \/ callback_measurement
  \/ callback_sigma
  \/ callback_recombine
  \/ callback_innovation
  \/ callback_commit
  \/ callback_publish

Spec == Init /\ [][Next]_vars

\* ------------------------------------------------------------ properties
InitialState == Zeros(6)
InitialCov == MatScale(ONE \div 10, Eye(6))

\* the invocation is past the time step: current_t and dt are bound
InStep == pc \notin {"idle", "entry"}

\* what a sum of NSigma truncated products can lose, in units
RoundTol == NSigma

\* C1: the first call of callback (prev_time is None) only records the IMU
\* time: it returns at once, publishes nothing and raises nothing, the state
\* and covariance are still the initial ones after it; and once prev_time is
\* set it is never None again, so every later call goes on to the filter.
C1_FirstSampleOnlySetsTimeReference ==
  /\ [](calls <= 1 => /\ state = InitialState
                      /\ state_cov = InitialCov
                      /\ odom_pub = <<>>
                      /\ raised = "none"
                      /\ pc \in {"idle", "entry"})
  /\ [][((pc = "entry" /\ prev_time = <<>>)
          => /\ calls = 1
             /\ prev_time' = <<to_sec(frame.imu_data.stamp)>>
             /\ pc' = "idle"
             /\ UNCHANGED <<state, state_cov, odom_pub, raised>>)]_vars
  /\ [][(prev_time # <<>> => prev_time' # <<>>)]_vars
  /\ [][((pc = "entry" /\ calls > 1) => pc' = "measure")]_vars

C1_Witness == calls = 1 /\ pc = "idle" /\ prev_time # <<>>

\* the step's input is invalid: dt is not positive, or the wheel-velocity
\* vector has not 4 entries
InvalidInput ==
  /\ InStep
  /\ \/ frame.dt <= 0
     \/ Len(frame.wheel_encoder_data.velocity) # 4

\* C2: a step on invalid input (dt <= 0, or a wheel-velocity vector whose
\* length is not 4) is rejected: no part of it changes the state vector, the
\* covariance or the published messages, and it ends with an exception.
C2_InvalidInputRejected ==
  [][(InvalidInput
       => /\ UNCHANGED <<state, state_cov, odom_pub>>
          /\ (pc' = "idle" => raised' # "none"))]_vars

\* a step on a repeated stamp and a one-element wheel vector has committed
C2_InvalidStepCommitted ==
  /\ pc = "publish"
  /\ frame.dt <= 0
  /\ Len(frame.wheel_encoder_data.velocity) = 1
  /\ state = frame.UKF_posterior
  /\ state # InitialState

\* a numerical failure is about to occur: the Cholesky factorisation of the
\* covariance fails, or the innovation covariance cannot be inverted
NumericalFailure ==
  \/ pc = "sigma" /\ cholesky(state_cov) = LinAlgError
  \/ /\ pc = "innovation"
     /\ inv(innovation_cov(frame.pred_cov, frame.z_cov)) = LinAlgError

\* C3: a numerical failure ends the invocation with LinAlgError (it is not
\* caught, and nothing is retried), with the state vector and covariance as
\* they were and no message published; a step never reaches the commit with
\* an innovation covariance that cannot be inverted.
C3_NumericalFailureSurfaced ==
  /\ [][(NumericalFailure
          => /\ raised' = "LinAlgError"
             /\ errors' = errors + 1
             /\ pc' = "idle"
             /\ UNCHANGED <<state, state_cov, odom_pub, prev_time>>)]_vars
  /\ [](pc \in {"commit", "publish"}
          => inv(innovation_cov(frame.pred_cov, frame.z_cov)) # LinAlgError)

C3_Witness == pc = "idle" /\ raised = "LinAlgError" /\ odom_pub = <<>>

\* C4: self.state and self.state_cov change only in the commit step, which
\* writes both together from what innovation returned; the steps that run
\* predict, innovation and publish_odometry leave them as they are; and the
\* commit is reached only from the innovation step and left for the publish
\* step, so it happens once in an invocation.
C4_StateWrittenOnlyByCommit ==
  /\ [][((state' # state \/ state_cov' # state_cov) => pc = "commit")]_vars
  /\ [][(pc = "commit"
          => /\ state' = frame.UKF_posterior
             /\ state_cov' = frame.UKF_cov_posterior
             /\ pc' = "publish")]_vars
  /\ [][((pc' = "commit" /\ pc # "commit") => pc = "innovation")]_vars
  /\ [][(pc \in {"measure", "recombine", "innovation", "publish"}
          => UNCHANGED <<state, state_cov>>)]_vars

C4_Witness == pc = "publish" /\ state # InitialState /\ state_cov # InitialCov

Recombined == pc \in {"innovation", "commit", "publish"}

\* C5: the mean the deviations of the predicted covariance are taken from is
\* the weighted mean of the propagated sigma points, the one handed to the
\* update as the predicted state (up to the rounding of the weighted sum).
C5_DeviationsFromPredictedMean ==
  Recombined
    => /\ \A j \in 1..n :
            Abs(frame.mean_pred[j] - frame.pred_state[j]) <= RoundTol
       /\ frame.pred_cov = weighted_cov(frame.mean_pred, frame.preds)

\* the update was handed a predicted state that is not the mean the
\* deviations were taken from
C5_MeansDiffer ==
  /\ pc = "commit"
  /\ frame.mean_pred[1] - frame.pred_state[1] > 1000 * RoundTol
  /\ frame.pred_cov = weighted_cov(frame.mean_pred, frame.preds)
  /\ frame.pred_cov # weighted_cov(frame.pred_state, frame.preds)

SigmaBound == pc \in {"recombine", "innovation", "commit"}

\* C6: sigma point 0 is the state, points i and n+i mirror each other about
\* the state, the 13 mean weights sum to 1, and the weighted sum of the sigma
\* points is the state (up to the rounding of the 13 products).
C6_SigmaPointsReconstructMean ==
  SigmaBound
    => /\ Len(frame.sigma) = NSigma
       /\ frame.sigma[1] = state
       /\ \A i \in 1..n : \A j \in 1..n :
            frame.sigma[1 + i][j] + frame.sigma[1 + n + i][j] = 2 * state[j]
       /\ SeqSum([i \in 1..NSigma |-> mean_weights[i]]) = ONE
       /\ \A j \in 1..n :
            Abs(SeqSum([i \in 1..NSigma |->
                          Mul(mean_weights[i], frame.sigma[i][j])])
                  - state[j]) <= RoundTol

C6_Witness ==
  /\ pc = "recombine"
  /\ state # InitialState
  /\ state_cov[3][2] # 0
  /\ frame.sigma[3] # frame.sigma[1]

\* the slots {0, 1, 5} of a row-major 6 x 6 covariance hold the 3 x 3 block
\* of P that starts after row and column off; every other entry is 0
SubBlock(flat, P, off) ==
  LET slot(r) == IF r = 6 THEN 3 ELSE r
  IN  /\ Len(flat) = 36
      /\ \A r \in 1..6 : \A c \in 1..6 :
           flat[6 * (r - 1) + c] =
             IF r \in {1, 2, 6} /\ c \in {1, 2, 6}
             THEN P[off + slot(r)][off + slot(c)]
             ELSE 0

IsSymmetric(P) == \A i \in 1..Len(P) : \A j \in 1..Len(P) : P[i][j] = P[j][i]

\* C8: the covariance is symmetric and has a Cholesky factor in every state,
\* so after every commit the next step's sigma points can be generated.
C8_CovarianceSymmetricPositiveDefinite ==
  /\ IsSymmetric(state_cov)
  /\ cholesky(state_cov) # LinAlgError

C8_Witness ==
  /\ pc = "recombine"
  /\ Len(odom_pub) >= 1
  /\ state_cov[2][3] # 0

\* C9: the publish step comes after the commit of the same invocation: it
\* appends exactly one message, stamped with the invocation's IMU stamp, whose
\* pose and twist are those of the posterior just committed; messages appear
\* in no other step; and when no invocation runs, the messages number the
\* invocations less the first and less those that raised.
C9_OneMessagePerStep ==
  /\ [][(pc = "publish"
          => /\ state = frame.UKF_posterior
             /\ state_cov = frame.UKF_cov_posterior
             /\ Len(odom_pub') = Len(odom_pub) + 1
             /\ SubSeq(odom_pub', 1, Len(odom_pub)) = odom_pub
             /\ LET m == odom_pub'[Len(odom_pub')]
                IN  /\ m.stamp = frame.imu_data.stamp
                    /\ m.position = <<state[1], state[2], 0>>
                    /\ m.orientation_matrix[1][1] = Cos(state[3])
                    /\ m.orientation_matrix[2][1] = Sin(state[3])
                    /\ m.twist = <<state[4], state[5], state[6]>>
             /\ pc' = "idle"
             /\ raised' = "none")]_vars
  /\ [][(odom_pub' # odom_pub => pc = "publish")]_vars
  /\ [][(pc' = "publish" => pc = "commit")]_vars
  /\ []((pc = "idle" /\ calls >= 1)
          => Len(odom_pub) = calls - 1 - errors)

C9_Witness ==
  /\ pc = "idle"
  /\ calls = 3
  /\ errors = 0
  /\ Len(odom_pub) = 2
  /\ odom_pub[2].position # odom_pub[1].position

\* C10: every invocation sets prev_time to its IMU time at its start, before
\* anything can fail, and no other step changes it; so dt is the difference
\* to the time of the preceding invocation whatever became of that one, and
\* an invocation that raises leaves prev_time at its own time and the state
\* vector and covariance as they were.
C10_TimeReferenceAlwaysAdvances ==
  /\ [][(pc = "entry"
          => /\ prev_time' = <<to_sec(frame.imu_data.stamp)>>
             /\ (prev_time # <<>>
                   => frame'.dt = to_sec(frame.imu_data.stamp) - prev_time[1]))
       ]_vars
  /\ [][(pc # "entry" => prev_time' = prev_time)]_vars
  /\ [](InStep => /\ prev_time = <<to_sec(frame.current_t)>>
                  /\ frame.current_t = frame.imu_data.stamp)
  /\ [][((InStep /\ raised' # "none")
          => /\ pc' = "idle"
             /\ prev_time' = <<to_sec(frame.current_t)>>
             /\ UNCHANGED <<state, state_cov>>)]_vars

C10_Witness ==
  /\ pc = "measure"
  /\ errors >= 1
  /\ prev_time = <<to_sec(frame.current_t)>>
  /\ frame.dt # 0
====
